---- MODULE Spec2Model ----
(***************************************************************************)
(* The list controller of tsm (tmux session picker): the bubbletea Model   *)
(* of package model, its Update function and the handlers it dispatches    *)
(* to.  One action per event the controller can receive: a data-fetch      *)
(* result (sessionsMsg / errMsg), the clear-message tick, and one action   *)
(* per branch of the three key handlers.                                   *)
(*                                                                         *)
(* Go indices are kept 0-based (cursor, Item.SessionIndex,                 *)
(* Item.WindowIndex); a TLA+ sequence is read at index + 1.                *)
(* Strings that the code inspects (session names, the filter, the text     *)
(* input) are sequences of one-character strings.  A switch / kill target  *)
(* is <<name>> for a session and <<name, index>> for "name:index".         *)
(***************************************************************************)
EXTENDS Integers, Sequences, FiniteSets, TLC

VARIABLES
    sessions,        \* m.sessions: sequence of [Name, Expanded, Windows]
    cursor,          \* m.cursor
    items,           \* m.items: sequence of [IsSession, SessionIndex, WindowIndex]
    mode,            \* m.mode
    message,         \* m.message
    messageIsError,  \* m.messageIsError
    input,           \* m.input: [value, focus]
    killTarget,      \* m.killTarget
    filter,          \* m.filter
    loads,           \* loadSessions commands in flight
    clears,          \* clearMessageAfter timers in flight
    cmds,            \* switch, kill and create calls made by the last event
    quit             \* tea.Quit was returned

vars == <<sessions, cursor, items, mode, message, messageIsError, input,
          killTarget, filter, loads, clears, cmds, quit>>

----------------------------------------------------------------------------
(* Bounds of the model *)

MaxFilter == 2      \* longest filter text typed
MaxInFlight == 1    \* asynchronous commands of one kind in flight

CharLimit == 50     \* ti.CharLimit

----------------------------------------------------------------------------
(* Modes *)

ModeNormal == "Normal"
ModeConfirmKill == "ConfirmKill"
ModeCreate == "Create"

----------------------------------------------------------------------------
(* Data the collaborators can return *)

alpha == <<"a", "l", "p", "h", "a">>
beta == <<"b", "e", "t", "a">>
gamma == <<"g", "a", "m", "m", "a">>
Beta == <<"B", "e", "t", "a">>

NewSession(n) == [Name |-> n, Expanded |-> FALSE, Windows |-> <<>>]

\* tmux.ListSessions: the lists a fetch can deliver.  Sessions arrive
\* collapsed, with no windows loaded.
SessionLists ==
    { <<>>,
      <<NewSession(alpha), NewSession(beta), NewSession(gamma)>>,
      <<NewSession(Beta)>> }

\* tmux.ListWindows(name): the window indices a fetch can deliver (positive,
\* unique within the session, not contiguous, not starting at 1 everywhere).
WindowLists(name) == IF name = alpha THEN { <<1, 3>> } ELSE { <<2>> }

\* Characters typed in Normal mode; "1" is a digit key.
Runes == {"a", "B", "1"}

\* Texts typed into the create field, character by character.
NameTexts == { <<"a", " ">>, <<" ">> }

IsPrefix(s, t) == Len(s) <= Len(t) /\ SubSeq(t, 1, Len(s)) = s

DigitOf(r) == CASE r = "1" -> 1 [] r = "2" -> 2 [] r = "3" -> 3
                [] r = "4" -> 4 [] r = "5" -> 5 [] r = "6" -> 6
                [] r = "7" -> 7 [] r = "8" -> 8 [] r = "9" -> 9
                [] OTHER -> 0

----------------------------------------------------------------------------
(* strings.ToLower, strings.Contains, strings.TrimSpace *)

Upper == <<"A","B","C","D","E","F","G","H","I","J","K","L","M",
           "N","O","P","Q","R","S","T","U","V","W","X","Y","Z">>
Lower == <<"a","b","c","d","e","f","g","h","i","j","k","l","m",
           "n","o","p","q","r","s","t","u","v","w","x","y","z">>

LowerOf == [c \in {Upper[i] : i \in 1..Len(Upper)} |->
               Lower[CHOOSE i \in 1..Len(Upper) : Upper[i] = c]]

ToLowerChar(c) == IF c \in DOMAIN LowerOf THEN LowerOf[c] ELSE c

ToLower(s) == [i \in 1..Len(s) |-> ToLowerChar(s[i])]

Contains(s, substr) ==
    \E i \in 0..(Len(s) - Len(substr)) : SubSeq(s, i + 1, i + Len(substr)) = substr

IsSpace(c) == c = " "

RECURSIVE TrimLeft(_)
TrimLeft(s) == IF s # <<>> /\ IsSpace(Head(s)) THEN TrimLeft(Tail(s)) ELSE s

RECURSIVE TrimRight(_)
TrimRight(s) ==
    IF s # <<>> /\ IsSpace(s[Len(s)]) THEN TrimRight(SubSeq(s, 1, Len(s) - 1)) ELSE s

\* Mutant: the name is not trimmed.
TrimSpace_None(s) == s

TrimSpace(s) == TrimRight(TrimLeft(s))

----------------------------------------------------------------------------
(* Item flattener *)

fuzzyMatch(text, pattern) == Contains(ToLower(text), pattern)

SessionItem(i) == [IsSession |-> TRUE, SessionIndex |-> i, WindowIndex |-> 0]
WindowItem(i, j) == [IsSession |-> FALSE, SessionIndex |-> i, WindowIndex |-> j]

\* Mutant: window rows are emitted whether or not the session is expanded.
RECURSIVE BuildItems_AllWindows(_, _, _)
BuildItems_AllWindows(ss, f, i) ==
    IF i >= Len(ss) THEN <<>>
    ELSE LET session == ss[i + 1]
             rows == IF f # <<>> /\ ~fuzzyMatch(session.Name, ToLower(f))
                     THEN <<>>
                     ELSE <<SessionItem(i)>> \o
                          [j \in 1..Len(session.Windows) |-> WindowItem(i, j - 1)]
         IN  rows \o BuildItems_AllWindows(ss, f, i + 1)

\* The loop of rebuildItems from session position i (0-based) on.
RECURSIVE BuildItems(_, _, _)
BuildItems(ss, f, i) ==
    IF i >= Len(ss) THEN <<>>
    ELSE LET session == ss[i + 1]
             rows == IF f # <<>> /\ ~fuzzyMatch(session.Name, ToLower(f))
                     THEN <<>>
                     ELSE <<SessionItem(i)>> \o
                          (IF session.Expanded
                           THEN [j \in 1..Len(session.Windows) |-> WindowItem(i, j - 1)]
                           ELSE <<>>)
         IN  rows \o BuildItems(ss, f, i + 1)

\* Mutant: the cursor is left where it was.
ClampCursor_NoClamp(c, n) == c

\* "Ensure cursor is in bounds"
ClampCursor(c, n) ==
    LET c1 == IF c >= n THEN n - 1 ELSE c
    IN  IF c1 < 0 THEN 0 ELSE c1

\* rebuildItems on the given sessions, filter and cursor.
rebuildItems(ss, f, c) ==
    /\ items' = BuildItems(ss, f, 0)
    /\ cursor' = ClampCursor(c, Len(items'))

----------------------------------------------------------------------------
(* Helpers *)

CursorInRange == cursor >= 0 /\ cursor < Len(items)
CurrentItem == items[cursor + 1]

SessionTarget(s) == <<s.Name>>
WindowTarget(s, idx) == <<s.Name, idx>>
NoTarget == <<>>

\* m.sessions with the session at position idx (1-based) replaced by s.
WithSession(ss, idx, s) == [i \in 1..Len(ss) |-> IF i = idx THEN s ELSE ss[i]]

Cmd(op, target) == [op |-> op, target |-> target]

\* Mutant: a window is addressed by its position in the list.
TargetOf_Position(item) ==
    IF item.IsSession
    THEN SessionTarget(sessions[item.SessionIndex + 1])
    ELSE WindowTarget(sessions[item.SessionIndex + 1], item.WindowIndex)

\* The switch target of a row (selectCurrent), also the kill target.
TargetOf(item) ==
    IF item.IsSession
    THEN SessionTarget(sessions[item.SessionIndex + 1])
    ELSE WindowTarget(sessions[item.SessionIndex + 1],
                      sessions[item.SessionIndex + 1].Windows[item.WindowIndex + 1])

Init ==
    /\ sessions = <<>>
    /\ cursor = 0
    /\ items = <<>>
    /\ mode = ModeNormal
    /\ message = ""
    /\ messageIsError = FALSE
    /\ input = [value |-> <<>>, focus |-> FALSE]
    /\ killTarget = NoTarget
    /\ filter = <<>>
    /\ loads = 1
    /\ clears = 0
    /\ cmds = <<>>
    /\ quit = FALSE


----------------------------------------------------------------------------
(* Update: messages that are not keys *)

\* Mutant: the expansion flag and the windows of a session are carried
\* over to the fetched session of the same name.
SessionsMsg_Merge ==
    /\ ~quit /\ loads > 0
    /\ \E list \in SessionLists :
         /\ sessions' = [i \in 1..Len(list) |->
                           IF \E j \in 1..Len(sessions) : sessions[j].Name = list[i].Name
                           THEN sessions[CHOOSE j \in 1..Len(sessions) :
                                            sessions[j].Name = list[i].Name]
                           ELSE list[i]]
         /\ rebuildItems(sessions', filter, cursor)
         /\ message' = IF Len(items') = 0
                       THEN "No other sessions. Press c to create one."
                       ELSE message
    /\ loads' = loads - 1
    /\ cmds' = <<>>
    /\ UNCHANGED <<mode, messageIsError, input, killTarget, filter, clears, quit>>

\* Mutant: the fetched sessions are stored without rebuilding the rows.
SessionsMsg_NoRebuild ==
    /\ ~quit /\ loads > 0
    /\ \E list \in SessionLists :
         /\ sessions' = list
         /\ UNCHANGED <<items, cursor>>
         /\ message' = IF Len(items') = 0
                       THEN "No other sessions. Press c to create one."
                       ELSE message
    /\ loads' = loads - 1
    /\ cmds' = <<>>
    /\ UNCHANGED <<mode, messageIsError, input, killTarget, filter, clears, quit>>

\* case sessionsMsg: the result of a loadSessions command arrives.
SessionsMsg ==
    /\ ~quit /\ loads > 0
    /\ \E list \in SessionLists :
         /\ sessions' = list
         /\ rebuildItems(list, filter, cursor)
         /\ message' = IF Len(items') = 0
                       THEN "No other sessions. Press c to create one."
                       ELSE message
    /\ loads' = loads - 1
    /\ cmds' = <<>>
    /\ UNCHANGED <<mode, messageIsError, input, killTarget, filter, clears, quit>>

\* case errMsg: the loadSessions command failed.
ErrMsg ==
    /\ ~quit /\ loads > 0
    /\ message' = "Error"
    /\ messageIsError' = TRUE
    /\ loads' = loads - 1
    /\ cmds' = <<>>
    /\ UNCHANGED <<sessions, cursor, items, mode, input, killTarget, filter, clears, quit>>

\* case clearMessageMsg: the timer started by clearMessageAfter fires.
ClearMessageMsg ==
    /\ ~quit /\ clears > 0
    /\ message' = ""
    /\ messageIsError' = FALSE
    /\ clears' = clears - 1
    /\ cmds' = <<>>
    /\ UNCHANGED <<sessions, cursor, items, mode, input, killTarget, filter, loads, quit>>

----------------------------------------------------------------------------
(* Calls on the tmux collaborator *)

\* tmux.SwitchClient(target) and the two ways its callers go on: tea.Quit on
\* success, an error message on failure.
SwitchClient(target) ==
    /\ cmds' = <<Cmd("switch", target)>>
    /\ \/ /\ quit' = TRUE
          /\ UNCHANGED <<message, messageIsError>>
       \/ /\ message' = "Error"
          /\ messageIsError' = TRUE
          /\ UNCHANGED quit

----------------------------------------------------------------------------
(* handleNormalMode *)

\* keys.Quit
NormalQuit ==
    /\ ~quit /\ mode = ModeNormal
    /\ quit' = TRUE
    /\ cmds' = <<>>
    /\ UNCHANGED <<sessions, cursor, items, mode, message, messageIsError, input,
                   killTarget, filter, loads, clears>>

\* Mutant: the filter is cleared but the rows are not rebuilt.
NormalCancel_NoRebuild ==
    /\ ~quit /\ mode = ModeNormal
    /\ IF filter # <<>>
       THEN /\ filter' = <<>>
            /\ UNCHANGED <<items, cursor, quit>>
       ELSE /\ quit' = TRUE
            /\ UNCHANGED <<filter, items, cursor>>
    /\ cmds' = <<>>
    /\ UNCHANGED <<sessions, mode, message, messageIsError, input, killTarget,
                   loads, clears>>

\* keys.Cancel: clear the filter if active, otherwise quit
NormalCancel ==
    /\ ~quit /\ mode = ModeNormal
    /\ IF filter # <<>>
       THEN /\ filter' = <<>>
            /\ rebuildItems(sessions, <<>>, cursor)
            /\ UNCHANGED quit
       ELSE /\ quit' = TRUE
            /\ UNCHANGED <<filter, items, cursor>>
    /\ cmds' = <<>>
    /\ UNCHANGED <<sessions, mode, message, messageIsError, input, killTarget,
                   loads, clears>>

\* keys.Up
NormalUp ==
    /\ ~quit /\ mode = ModeNormal
    /\ cursor' = IF cursor > 0 THEN cursor - 1 ELSE cursor
    /\ cmds' = <<>>
    /\ UNCHANGED <<sessions, items, mode, message, messageIsError, input,
                   killTarget, filter, loads, clears, quit>>

\* keys.Down
NormalDown ==
    /\ ~quit /\ mode = ModeNormal
    /\ cursor' = IF cursor < Len(items) - 1 THEN cursor + 1 ELSE cursor
    /\ cmds' = <<>>
    /\ UNCHANGED <<sessions, items, mode, message, messageIsError, input,
                   killTarget, filter, loads, clears, quit>>

\* Mutant: the other sessions stay expanded.
CollapseAll_None(ss) == ss

\* "Collapse all other sessions first"
CollapseAll(ss) == [i \in 1..Len(ss) |-> [ss[i] EXCEPT !.Expanded = FALSE]]

\* Mutant: the flag is set before the windows are fetched and stays set
\* when the fetch fails.
expandCurrent_FlagFirst ==
    IF ~CursorInRange \/ ~CurrentItem.IsSession
    THEN UNCHANGED <<sessions, items, cursor, message, messageIsError>>
    ELSE LET idx == CurrentItem.SessionIndex + 1
             all == CollapseAll(sessions)
             collapsed == WithSession(all, idx, [all[idx] EXCEPT !.Expanded = TRUE])
         IN  IF Len(collapsed[idx].Windows) = 0
             THEN \/ /\ sessions' = collapsed
                     /\ message' = "Error loading windows"
                     /\ messageIsError' = TRUE
                     /\ UNCHANGED <<items, cursor>>
                  \/ \E windows \in WindowLists(collapsed[idx].Name) :
                        /\ sessions' = WithSession(collapsed, idx,
                                          [collapsed[idx] EXCEPT !.Windows = windows])
                        /\ rebuildItems(sessions', filter, cursor)
                        /\ UNCHANGED <<message, messageIsError>>
             ELSE /\ sessions' = collapsed
                  /\ rebuildItems(sessions', filter, cursor)
                  /\ UNCHANGED <<message, messageIsError>>

\* expandCurrent
expandCurrent ==
    IF ~CursorInRange \/ ~CurrentItem.IsSession
    THEN UNCHANGED <<sessions, items, cursor, message, messageIsError>>
    ELSE LET idx == CurrentItem.SessionIndex + 1
             collapsed == CollapseAll(sessions)
         IN  IF Len(collapsed[idx].Windows) = 0
             THEN \/ \* tmux.ListWindows fails
                     /\ sessions' = collapsed
                     /\ message' = "Error loading windows"
                     /\ messageIsError' = TRUE
                     /\ UNCHANGED <<items, cursor>>
                  \/ \* tmux.ListWindows delivers the windows
                     \E windows \in WindowLists(collapsed[idx].Name) :
                        /\ sessions' = WithSession(collapsed, idx,
                                          [collapsed[idx] EXCEPT !.Windows = windows,
                                                                 !.Expanded = TRUE])
                        /\ rebuildItems(sessions', filter, cursor)
                        /\ UNCHANGED <<message, messageIsError>>
             ELSE /\ sessions' = WithSession(collapsed, idx,
                                  [collapsed[idx] EXCEPT !.Expanded = TRUE])
                  /\ rebuildItems(sessions', filter, cursor)
                  /\ UNCHANGED <<message, messageIsError>>

\* keys.Expand
NormalExpand ==
    /\ ~quit /\ mode = ModeNormal
    /\ expandCurrent
    /\ cmds' = <<>>
    /\ UNCHANGED <<mode, input, killTarget, filter, loads, clears, quit>>

\* The row the loop of collapseCurrent moves the cursor to: the first
\* session row of the parent, or the cursor itself when there is none.
ParentRow(sessionIdx) ==
    IF \E i \in 1..Len(items) : items[i].IsSession /\ items[i].SessionIndex = sessionIdx
    THEN (CHOOSE i \in 1..Len(items) :
             /\ items[i].IsSession /\ items[i].SessionIndex = sessionIdx
             /\ \A k \in 1..(i - 1) :
                   ~(items[k].IsSession /\ items[k].SessionIndex = sessionIdx)) - 1
    ELSE cursor

\* collapseCurrent
collapseCurrent ==
    IF ~CursorInRange
    THEN UNCHANGED <<sessions, items, cursor>>
    ELSE LET sessionIdx == CurrentItem.SessionIndex
             moved == IF CurrentItem.IsSession THEN cursor ELSE ParentRow(sessionIdx)
         IN  /\ sessions' = WithSession(sessions, sessionIdx + 1,
                                 [sessions[sessionIdx + 1] EXCEPT !.Expanded = FALSE])
             /\ rebuildItems(sessions', filter, moved)

\* keys.Collapse
NormalCollapse ==
    /\ ~quit /\ mode = ModeNormal
    /\ collapseCurrent
    /\ cmds' = <<>>
    /\ UNCHANGED <<mode, message, messageIsError, input, killTarget, filter,
                   loads, clears, quit>>

\* selectCurrent
selectCurrent ==
    IF ~CursorInRange
    THEN /\ cmds' = <<>>
         /\ UNCHANGED <<message, messageIsError, quit>>
    ELSE SwitchClient(TargetOf(CurrentItem))

\* keys.Select
NormalSelect ==
    /\ ~quit /\ mode = ModeNormal
    /\ selectCurrent
    /\ UNCHANGED <<sessions, cursor, items, mode, input, killTarget, filter,
                   loads, clears>>

\* confirmKill
confirmKill ==
    IF ~CursorInRange
    THEN UNCHANGED <<killTarget, message, mode>>
    ELSE /\ killTarget' = TargetOf(CurrentItem)
         /\ message' = IF CurrentItem.IsSession THEN "Kill?" ELSE "Kill window?"
         /\ mode' = ModeConfirmKill

\* keys.Kill
NormalKill ==
    /\ ~quit /\ mode = ModeNormal
    /\ confirmKill
    /\ cmds' = <<>>
    /\ UNCHANGED <<sessions, cursor, items, messageIsError, input, filter,
                   loads, clears, quit>>

\* keys.Create
NormalCreate ==
    /\ ~quit /\ mode = ModeNormal
    /\ mode' = ModeCreate
    /\ filter' = <<>>
    /\ input' = [value |-> <<>>, focus |-> TRUE]
    /\ cmds' = <<>>
    /\ UNCHANGED <<sessions, cursor, items, message, messageIsError, killTarget,
                   loads, clears, quit>>

----------------------------------------------------------------------------
(* handleJump *)

\* Mutant: the windows of the expanded session are not searched.
JumpTarget_SessionOnly(num) ==
    IF num - 1 >= 0 /\ num - 1 < Len(sessions)
    THEN SessionTarget(sessions[num])
    ELSE NoTarget

\* The switch target handleJump(num) resolves, NoTarget when the key is a
\* no-op: first a window of the expanded session under the cursor whose
\* index is num, then the session at position num - 1 of m.sessions.
JumpTarget(num) ==
    LET session == sessions[CurrentItem.SessionIndex + 1]
        sessionIdx == num - 1
    IN  IF /\ CursorInRange
           /\ session.Expanded
           /\ \E j \in 1..Len(session.Windows) : session.Windows[j] = num
        THEN WindowTarget(session, num)
        ELSE IF sessionIdx >= 0 /\ sessionIdx < Len(sessions)
             THEN SessionTarget(sessions[sessionIdx + 1])
             ELSE NoTarget

handleJump(num) ==
    IF JumpTarget(num) = NoTarget
    THEN /\ cmds' = <<>>
         /\ UNCHANGED <<message, messageIsError, quit>>
    ELSE SwitchClient(JumpTarget(num))

\* Mutant: digits jump whatever the filter.
JumpKey_AnyFilter(r) == DigitOf(r) \in 1..9

\* case m.filter == "" && key.Matches(msg, keys.Jump1) ... keys.Jump9:
\* "Number jumps (only when no filter active)"
JumpKey(r) == filter = <<>> /\ DigitOf(r) \in 1..9

\* A digit key taken as a jump address.
NormalJumpKey(r) ==
    /\ ~quit /\ mode = ModeNormal
    /\ JumpKey(r)
    /\ handleJump(DigitOf(r))
    /\ UNCHANGED <<sessions, cursor, items, mode, input, killTarget, filter,
                   loads, clears>>

NormalJump == \E r \in Runes : NormalJumpKey(r)

\* tea.KeyBackspace
NormalBackspace ==
    /\ ~quit /\ mode = ModeNormal
    /\ IF Len(filter) > 0
       THEN /\ filter' = SubSeq(filter, 1, Len(filter) - 1)
            /\ rebuildItems(sessions, filter', cursor)
       ELSE UNCHANGED <<filter, items, cursor>>
    /\ cmds' = <<>>
    /\ UNCHANGED <<sessions, mode, message, messageIsError, input, killTarget,
                   loads, clears, quit>>

\* Mutant: the typed character is appended and the rows are not rebuilt.
NormalRunesKey_NoRebuild(r) ==
    /\ ~quit /\ mode = ModeNormal
    /\ Len(filter) < MaxFilter
    /\ ~JumpKey(r)
    /\ filter' = Append(filter, r)
    /\ cmds' = <<>>
    /\ UNCHANGED <<sessions, items, cursor, mode, message, messageIsError, input,
                   killTarget, loads, clears, quit>>

\* tea.KeyRunes: "Add typed characters to filter"
NormalRunesKey(r) ==
    /\ ~quit /\ mode = ModeNormal
    /\ Len(filter) < MaxFilter
    /\ ~JumpKey(r)
    /\ filter' = Append(filter, r)
    /\ rebuildItems(sessions, filter', cursor)
    /\ cmds' = <<>>
    /\ UNCHANGED <<sessions, mode, message, messageIsError, input, killTarget,
                   loads, clears, quit>>

NormalRunes == \E r \in Runes : NormalRunesKey(r)

\* Any other key: no case of the switch matches.
NormalOther ==
    /\ ~quit /\ mode = ModeNormal
    /\ cmds' = <<>>
    /\ UNCHANGED <<sessions, cursor, items, mode, message, messageIsError, input,
                   killTarget, filter, loads, clears, quit>>

----------------------------------------------------------------------------
(* handleConfirmKillMode *)

\* killCurrent: kills the row under the cursor, then asks for a reload and
\* a delayed clear of the message.
killCurrent ==
    IF ~CursorInRange
    THEN /\ cmds' = <<>>
         /\ UNCHANGED <<message, messageIsError, mode, killTarget, loads, clears>>
    ELSE /\ loads < MaxInFlight /\ clears < MaxInFlight
         /\ cmds' = <<Cmd("kill", TargetOf(CurrentItem))>>
         /\ \/ \* tmux.KillSession / tmux.KillWindow succeeds
               /\ message' = IF CurrentItem.IsSession THEN "Killed" ELSE "Killed window"
               /\ UNCHANGED messageIsError
            \/ \* ... or fails
               /\ message' = "Error"
               /\ messageIsError' = TRUE
         /\ mode' = ModeNormal
         /\ killTarget' = NoTarget
         /\ loads' = loads + 1
         /\ clears' = clears + 1

\* keys.Confirm
ConfirmKey ==
    /\ ~quit /\ mode = ModeConfirmKill
    /\ killCurrent
    /\ UNCHANGED <<sessions, cursor, items, input, filter, quit>>

\* keys.Cancel
ConfirmCancel ==
    /\ ~quit /\ mode = ModeConfirmKill
    /\ mode' = ModeNormal
    /\ message' = ""
    /\ killTarget' = NoTarget
    /\ cmds' = <<>>
    /\ UNCHANGED <<sessions, cursor, items, messageIsError, input, filter,
                   loads, clears, quit>>

\* Any other key
ConfirmOther ==
    /\ ~quit /\ mode = ModeConfirmKill
    /\ cmds' = <<>>
    /\ UNCHANGED <<sessions, cursor, items, mode, message, messageIsError, input,
                   killTarget, filter, loads, clears, quit>>

----------------------------------------------------------------------------
(* handleCreateMode *)

\* keys.Cancel
CreateCancel ==
    /\ ~quit /\ mode = ModeCreate
    /\ mode' = ModeNormal
    /\ input' = [input EXCEPT !.focus = FALSE]
    /\ cmds' = <<>>
    /\ UNCHANGED <<sessions, cursor, items, message, messageIsError, killTarget,
                   filter, loads, clears, quit>>

\* createSession(name)
createSession(name) ==
    \/ \* tmux.CreateSession fails
       /\ cmds' = <<Cmd("create", <<name>>)>>
       /\ message' = "Error"
       /\ messageIsError' = TRUE
       /\ mode' = ModeNormal
       /\ input' = [input EXCEPT !.focus = FALSE]
       /\ UNCHANGED <<loads, quit>>
    \/ \* created, tmux.SwitchClient fails
       /\ loads < MaxInFlight
       /\ cmds' = <<Cmd("create", <<name>>), Cmd("switch", <<name>>)>>
       /\ message' = "Created but failed to switch"
       /\ messageIsError' = TRUE
       /\ loads' = loads + 1
       /\ UNCHANGED <<mode, input, quit>>
    \/ \* created and switched
       /\ cmds' = <<Cmd("create", <<name>>), Cmd("switch", <<name>>)>>
       /\ quit' = TRUE
       /\ UNCHANGED <<message, messageIsError, mode, input, loads>>

\* tea.KeyEnter
CreateEnter ==
    /\ ~quit /\ mode = ModeCreate
    /\ LET name == TrimSpace(input.value)
       IN  IF name = <<>>
           THEN /\ message' = "Session name cannot be empty"
                /\ messageIsError' = TRUE
                /\ cmds' = <<>>
                /\ UNCHANGED <<mode, input, loads, quit>>
           ELSE createSession(name)
    /\ UNCHANGED <<sessions, cursor, items, killTarget, filter, clears>>

\* The ctrl key combinations the handler swallows.
CreateIgnored ==
    /\ ~quit /\ mode = ModeCreate
    /\ cmds' = <<>>
    /\ UNCHANGED <<sessions, cursor, items, mode, message, messageIsError, input,
                   killTarget, filter, loads, clears, quit>>

\* m.input.Update(msg) for a typed character: appended while the field is
\* focused and below its CharLimit.
CreateInput ==
    /\ ~quit /\ mode = ModeCreate
    /\ \E r \in {" ", "a"} :
         /\ \E t \in NameTexts : IsPrefix(Append(input.value, r), t)
         /\ input' = IF input.focus /\ Len(input.value) < CharLimit
                     THEN [input EXCEPT !.value = Append(input.value, r)]
                     ELSE input
    /\ cmds' = <<>>
    /\ UNCHANGED <<sessions, cursor, items, mode, message, messageIsError,
                   killTarget, filter, loads, clears, quit>>

\* m.input.Update(msg) for backspace: deletes the last character.
CreateBackspace ==
    /\ ~quit /\ mode = ModeCreate
    /\ input' = IF input.focus /\ Len(input.value) > 0
                THEN [input EXCEPT !.value = SubSeq(input.value, 1, Len(input.value) - 1)]
                ELSE input
    /\ cmds' = <<>>
    /\ UNCHANGED <<sessions, cursor, items, mode, message, messageIsError,
                   killTarget, filter, loads, clears, quit>>

----------------------------------------------------------------------------

Next ==
    \/ SessionsMsg \/ ErrMsg \/ ClearMessageMsg
    \/ NormalQuit \/ NormalCancel \/ NormalUp \/ NormalDown
    \/ NormalExpand \/ NormalCollapse \/ NormalSelect \/ NormalKill
    \/ NormalCreate \/ NormalJump \/ NormalBackspace \/ NormalRunes
    \/ NormalOther
    \/ ConfirmKey \/ ConfirmCancel \/ ConfirmOther
    \/ CreateCancel \/ CreateEnter \/ CreateIgnored \/ CreateInput
    \/ CreateBackspace

Spec == Init /\ [][Next]_vars

----------------------------------------------------------------------------
(* rebuildItems on its own: every bounded input, then one call *)

SessionNames == {alpha, beta, Beta}

\* A session in any state of its two fields that rebuildItems reads.
SessionValues ==
    {s \in [Name : SessionNames, Expanded : BOOLEAN,
            Windows : {<<>>} \cup UNION {WindowLists(n) : n \in SessionNames}] :
        s.Windows = <<>> \/ s.Windows \in WindowLists(s.Name)}

\* Session lists with distinct names.
SessionInputs ==
    UNION {{ss \in [1..n -> SessionValues] :
               \A i \in 1..n, j \in 1..n : i # j => ss[i].Name # ss[j].Name} :
           n \in 0..Cardinality(SessionNames)}

\* Filter texts that can be typed.
FilterInputs == UNION {[1..n -> Runes] : n \in 0..MaxFilter}

InitRebuild ==
    /\ sessions \in SessionInputs
    /\ filter \in FilterInputs
    /\ cursor \in 0..Len(sessions)
    /\ items = <<>>
    /\ mode = ModeNormal
    /\ message = ""
    /\ messageIsError = FALSE
    /\ input = [value |-> <<>>, focus |-> FALSE]
    /\ killTarget = NoTarget
    /\ loads = 0
    /\ clears = 0
    /\ cmds = <<>>
    /\ quit = FALSE

\* One call of rebuildItems.
RebuildStep ==
    /\ rebuildItems(sessions, filter, cursor)
    /\ UNCHANGED <<sessions, mode, message, messageIsError, input, killTarget,
                   filter, loads, clears, cmds, quit>>

NextRebuild == RebuildStep

SpecRebuild == InitRebuild /\ [][NextRebuild]_vars

----------------------------------------------------------------------------
(* Vocabulary of the properties *)

\* The session rows of the Row sequence, in order: View numbers them 1, 2, ...
SessionRows == SelectSeq(items, LAMBDA it : it.IsSession)

\* The name View renders with numeric label d.
LabelName(d) == sessions[SessionRows[d].SessionIndex + 1].Name

\* A case-insensitive substring test written without the flattener.
PassesFilter(name, f) ==
    \E i \in 0..(Len(name) - Len(f)) :
       \A k \in 1..Len(f) : ToLowerChar(name[i + k]) = ToLowerChar(f[k])

\* The rows its are consistent with the sessions ss and the filter f.
RowsConsistent(its, ss, f) ==
    /\ \A k \in 1..Len(its) :
          /\ its[k].SessionIndex + 1 \in 1..Len(ss)
          /\ PassesFilter(ss[its[k].SessionIndex + 1].Name, f)
          /\ ~its[k].IsSession => ss[its[k].SessionIndex + 1].Expanded
    /\ \A i \in 1..Len(ss) :
          PassesFilter(ss[i].Name, f) =>
             \E k \in 1..Len(its) : its[k].IsSession /\ its[k].SessionIndex = i - 1

ExpandedSet(ss) == {i \in 1..Len(ss) : ss[i].Expanded}

HasCmd(cs, op) == \E k \in 1..Len(cs) : cs[k].op = op

Names(ss) == [i \in 1..Len(ss) |-> ss[i].Name]

----------------------------------------------------------------------------
(* C1 *)

\* C1: cursor invariant.  In every reachable state 0 <= cursor < len(Rows)
\* when the Row sequence is non-empty, and cursor = 0 when it is empty.
C1_CursorInvariant ==
    /\ Len(items) > 0 => (0 <= cursor /\ cursor < Len(items))
    /\ Len(items) = 0 => cursor = 0

\* The filter removed every row of a three-session list.
C1_Witness ==
    /\ Len(sessions) = 3 /\ filter = <<"a", "1">>
    /\ items = <<>> /\ cursor = 0 /\ mode = ModeNormal

----------------------------------------------------------------------------
(* C2 *)

\* C2: mutual exclusivity.  After any event at most one session has its
\* expansion flag set, and an Expand on a session row that does not fail
\* leaves exactly that session expanded.
C2_MutualExclusivity ==
    /\ [](Cardinality(ExpandedSet(sessions)) <= 1)
    /\ [][(/\ NormalExpand
           /\ CursorInRange /\ CurrentItem.IsSession
           /\ sessions' # CollapseAll(sessions))
          => ExpandedSet(sessions') = {CurrentItem.SessionIndex + 1}]_vars

\* A second session was expanded after the first: only the second is.
C2_Witness ==
    /\ Len(sessions) = 3
    /\ sessions[1].Windows # <<>> /\ ~sessions[1].Expanded
    /\ sessions[2].Expanded

----------------------------------------------------------------------------
(* C3 *)

\* C3: in every reachable state the Row sequence is consistent with the
\* sessions and the filter: every session row passes the filter, every
\* filter-passing session has a row, and a window row has an expanded,
\* filter-passing parent.
C3_RowsConsistent == RowsConsistent(items, sessions, filter)

----------------------------------------------------------------------------
(* C4 *)

\* C4: a digit d that Jump resolves as a session position switches to the
\* d-th session row of the visible Row sequence (the session labelled d),
\* and is a no-op when fewer than d session rows are visible.
C4_JumpUsesVisibleOrder ==
    [][\A r \in Runes :
         (/\ NormalJumpKey(r)
          /\ ~(/\ CursorInRange
               /\ sessions[CurrentItem.SessionIndex + 1].Expanded
               /\ \E j \in 1..Len(sessions[CurrentItem.SessionIndex + 1].Windows) :
                     sessions[CurrentItem.SessionIndex + 1].Windows[j] = DigitOf(r)))
         => IF DigitOf(r) <= Len(SessionRows)
            THEN cmds' = <<Cmd("switch", <<LabelName(DigitOf(r))>>)>>
            ELSE cmds' = <<>> /\ ~quit']_vars

----------------------------------------------------------------------------
(* C5 *)

\* C5: jump window priority.  With an empty filter, when the session of the
\* selected row is expanded and has a window whose index is the digit, the
\* switch request is for "session:index"; otherwise the digit never
\* addresses a window.
C5_JumpWindowPriority ==
    [][\A r \in Runes :
         NormalJumpKey(r) =>
            LET d == DigitOf(r)
                s == sessions[CurrentItem.SessionIndex + 1]
            IN  IF /\ CursorInRange /\ s.Expanded
                   /\ \E j \in 1..Len(s.Windows) : s.Windows[j] = d
                THEN cmds' = <<Cmd("switch", <<s.Name, d>>)>>
                ELSE \A k \in 1..Len(cmds') : Len(cmds'[k].target) = 1]_vars

\* Digit 1 was pressed on expanded alpha (windows 1 and 3), itself the
\* first session: the request is for alpha:1.
C5_Witness ==
    /\ cmds = <<Cmd("switch", <<alpha, 1>>)>>
    /\ filter = <<>> /\ CursorInRange
    /\ sessions[CurrentItem.SessionIndex + 1].Name = alpha

----------------------------------------------------------------------------
(* C6 *)

Key1(r) == r = "1" /\ (NormalJumpKey(r) \/ NormalRunesKey(r))

\* C6 as stated: with sessions alpha, beta, gamma and the filter "a",
\* digit 1 in Normal mode produces a switch request to alpha.
C6_Original ==
    [][(/\ Names(sessions) = <<alpha, beta, gamma>>
        /\ filter = <<"a">>
        /\ \E r \in Runes : Key1(r))
       => cmds' = <<Cmd("switch", <<alpha>>)>>]_vars

\* C6 amended: in that scenario digit 1 is filter text.  The filter
\* becomes "a1", no row is left, no switch request is produced and the
\* picker keeps running.
C6_DigitIsFilterText ==
    [][(/\ Names(sessions) = <<alpha, beta, gamma>>
        /\ filter = <<"a">>
        /\ \E r \in Runes : Key1(r))
       => /\ filter' = <<"a", "1">>
          /\ items' = <<>>
          /\ cmds' = <<>>
          /\ ~quit']_vars

C6_Witness ==
    /\ Names(sessions) = <<alpha, beta, gamma>>
    /\ filter = <<"a", "1">> /\ items = <<>> /\ cmds = <<>> /\ ~quit

----------------------------------------------------------------------------
(* C7 *)

\* C7: a digit key is a jump address only when the filter is empty; with a
\* non-empty filter it is appended to the filter, the rows are rebuilt for
\* the new filter and no switch request is issued.
C7_DigitsJumpOnlyWhenFilterEmpty ==
    [][\A r \in {x \in Runes : DigitOf(x) \in 1..9} :
         /\ NormalJumpKey(r) => filter = <<>>
         /\ (filter # <<>> /\ (NormalJumpKey(r) \/ NormalRunesKey(r)))
            => /\ filter' = Append(filter, r)
               /\ RowsConsistent(items', sessions', filter')
               /\ cmds' = <<>>
               /\ ~quit']_vars

\* "B" left only beta visible; the digit then typed went into the filter.
C7_Witness ==
    /\ filter = <<"B", "1">> /\ mode = ModeNormal
    /\ Names(sessions) = <<alpha, beta, gamma>>
    /\ items = <<>> /\ cmds = <<>>

----------------------------------------------------------------------------
(* C8 *)

\* What the claim requires of a step taken on a confirm key.
ConfirmDone == mode' = ModeNormal /\ HasCmd(cmds', "kill")

\* What the claim requires of a step taken on a cancel key.
CancelDone == mode' = ModeNormal /\ killTarget' = NoTarget /\ cmds' = <<>>

\* C8: in every reachable ConfirmDestructive state (with room for the
\* reload and the timer the kill starts) a confirm key issues a kill
\* command and returns to Normal, and a cancel key returns to Normal with
\* the captured target cleared and no command issued.
C8_ConfirmLeavesConfirmMode ==
    (/\ mode = ModeConfirmKill /\ ~quit
     /\ loads < MaxInFlight /\ clears < MaxInFlight)
    => /\ ENABLED (ConfirmKey /\ ConfirmDone)
       /\ ~ENABLED (ConfirmKey /\ ~ConfirmDone)
       /\ ENABLED (ConfirmCancel /\ CancelDone)
       /\ ~ENABLED (ConfirmCancel /\ ~CancelDone)

----------------------------------------------------------------------------
(* C9 *)

\* C9: a submit in Create mode with non-empty trimmed text issues the
\* create command and leaves Create mode: the picker quits, or is in
\* Normal mode with an error message.
C9_SubmitLeavesCreate ==
    [][(CreateEnter /\ TrimSpace(input.value) # <<>>)
       => /\ HasCmd(cmds', "create")
          /\ \/ quit'
             \/ mode' = ModeNormal /\ messageIsError' /\ message' # ""]_vars

----------------------------------------------------------------------------
(* C10 *)

\* C10: a submit in Create mode with empty or whitespace-only input stays
\* in Create mode, sets the validation message as an error and issues no
\* command; sessions, rows and cursor are unchanged.
C10_EmptySubmitStays ==
    [][(CreateEnter /\ \A k \in 1..Len(input.value) : input.value[k] = " ")
       => /\ mode' = ModeCreate
          /\ message' = "Session name cannot be empty" /\ messageIsError'
          /\ cmds' = <<>> /\ ~quit'
          /\ UNCHANGED <<sessions, items, cursor, loads>>]_vars

\* Whitespace was typed and submitted.
C10_Witness ==
    /\ mode = ModeCreate /\ input.value = <<" ">>
    /\ message = "Session name cannot be empty" /\ messageIsError
    /\ cmds = <<>>

----------------------------------------------------------------------------
(* C11 *)

\* C11: Collapse lands the cursor on the collapsed session's row.  From a
\* window row, or from the row of an expanded session, the session's flag is
\* cleared, none of its window rows is left, and the cursor indexes the
\* session's own row.
C11_CollapseLandsOnSession ==
    [][(/\ NormalCollapse /\ CursorInRange
        /\ (~CurrentItem.IsSession
            \/ sessions[CurrentItem.SessionIndex + 1].Expanded))
       => /\ ~sessions'[CurrentItem.SessionIndex + 1].Expanded
          /\ \A k \in 1..Len(items') :
                items'[k].SessionIndex = CurrentItem.SessionIndex => items'[k].IsSession
          /\ cursor' < Len(items')
          /\ items'[cursor' + 1] = SessionItem(CurrentItem.SessionIndex)]_vars

----------------------------------------------------------------------------
(* C12 *)

\* C12 as stated: a data-fetch result merges by session name.  A session
\* whose name is in the old and in the new data keeps its expansion flag and
\* its cached windows; a new name starts collapsed with no windows.
C12_Original ==
    [][SessionsMsg =>
         \A i \in 1..Len(sessions') :
            IF \E j \in 1..Len(sessions) : sessions[j].Name = sessions'[i].Name
            THEN \A j \in 1..Len(sessions) :
                    sessions[j].Name = sessions'[i].Name =>
                       /\ sessions'[i].Expanded = sessions[j].Expanded
                       /\ sessions'[i].Windows = sessions[j].Windows
            ELSE ~sessions'[i].Expanded /\ sessions'[i].Windows = <<>>]_vars

\* C12 amended: a data-fetch result replaces the sessions wholesale.  After
\* it every session is collapsed and has no cached windows, also a session
\* whose name was expanded or had cached windows before, and the rows are
\* the session rows that pass the filter.
C12_RefreshReplacesWholesale ==
    [][SessionsMsg =>
         /\ \A i \in 1..Len(sessions') :
               ~sessions'[i].Expanded /\ sessions'[i].Windows = <<>>
         /\ \A k \in 1..Len(items') : items'[k].IsSession
         /\ RowsConsistent(items', sessions', filter')]_vars

\* A window was killed, so a session was expanded; the reload the kill
\* asked for has arrived and nothing is expanded or cached any more.
C12_Witness ==
    /\ message = "Killed window" /\ loads = 0 /\ mode = ModeNormal
    /\ Len(sessions) = 3
    /\ \A i \in 1..Len(sessions) : ~sessions[i].Expanded /\ sessions[i].Windows = <<>>

----------------------------------------------------------------------------
(* C13 *)

\* The messages killCurrent sets.  Any other non-empty message on display
\* while a timer is in flight was set after the kill that started the timer.
KillMessages == {"Killed", "Killed window", "Error"}

\* C13: the delayed clear-message event of a kill never clears a message
\* that was set after that kill (a kill prompt, a validation message, a
\* window-fetch error, the empty-list notice, a failed-switch message).
C13_StaleTimerKeepsNewerMessage ==
    [][(/\ ClearMessageMsg
        /\ message # "" /\ message \notin KillMessages)
       => message' = message /\ messageIsError' = messageIsError]_vars

----------------------------------------------------------------------------
(* C14 *)

\* C14: an Expand on a session row with no loaded windows whose fetch fails
\* (no windows are loaded by the step) is aborted: the session's flag is
\* false, it has no window rows, the error message is set and flagged, and
\* the mode stays Normal.
C14_FailedExpandAborts ==
    [][(/\ NormalExpand /\ CursorInRange /\ CurrentItem.IsSession
        /\ sessions[CurrentItem.SessionIndex + 1].Windows = <<>>
        /\ sessions'[CurrentItem.SessionIndex + 1].Windows = <<>>)
       => /\ ~sessions'[CurrentItem.SessionIndex + 1].Expanded
          /\ \A k \in 1..Len(items') :
                items'[k].SessionIndex = CurrentItem.SessionIndex => items'[k].IsSession
          /\ message' = "Error loading windows" /\ messageIsError'
          /\ mode' = ModeNormal /\ ~quit' /\ cmds' = <<>>]_vars

\* The fetch for the session under the cursor has just failed.
C14_Witness ==
    /\ message = "Error loading windows" /\ messageIsError /\ mode = ModeNormal
    /\ CursorInRange /\ CurrentItem.IsSession
    /\ sessions[CurrentItem.SessionIndex + 1].Windows = <<>>
    /\ ~sessions[CurrentItem.SessionIndex + 1].Expanded
    /\ \E i \in 1..Len(sessions) : sessions[i].Windows # <<>>

----------------------------------------------------------------------------
(* C15 *)

\* C15: idempotence.  A Collapse key with the cursor on the row of an
\* already-collapsed session changes none of sessions, flags, rows, cursor,
\* filter, mode and message and produces no command; a confirm with no kill
\* target captured produces no kill command.
C15_CollapseIdempotent ==
    [][/\ (/\ NormalCollapse /\ CursorInRange /\ CurrentItem.IsSession
           /\ ~sessions[CurrentItem.SessionIndex + 1].Expanded)
          => /\ UNCHANGED <<sessions, items, cursor, filter, mode, message>>
             /\ cmds' = <<>>
       /\ (ConfirmKey /\ killTarget = NoTarget) => ~HasCmd(cmds', "kill")]_vars

----------------------------------------------------------------------------
(* C16 *)

\* C16: in Normal mode the cancel key with a non-empty filter clears the
\* filter, rebuilds the rows for the empty filter, keeps the mode Normal and
\* does not quit; with an empty filter it quits.  Sessions and expansion
\* flags are unchanged in both cases.
C16_CancelClearsFilterOrQuits ==
    [][NormalCancel
       => /\ sessions' = sessions
          /\ cmds' = <<>>
          /\ IF filter # <<>>
             THEN /\ filter' = <<>>
                  /\ items' = BuildItems(sessions, <<>>, 0)
                  /\ RowsConsistent(items', sessions', filter')
                  /\ mode' = ModeNormal /\ ~quit'
             ELSE quit']_vars

\* A filter hides some session while another is expanded, ready for cancel.
C16_Witness ==
    /\ mode = ModeNormal /\ ~quit /\ filter # <<>>
    /\ ExpandedSet(sessions) # {}
    /\ \E i \in 1..Len(sessions) : ~PassesFilter(sessions[i].Name, filter)
    /\ RowsConsistent(items, sessions, filter)

----------------------------------------------------------------------------
(* C17 *)

\* The target the current row stands for: the session's name, or the name
\* with the index stored in the window itself.
RowTarget ==
    LET s == sessions[CurrentItem.SessionIndex + 1]
    IN  IF CurrentItem.IsSession
        THEN <<s.Name>>
        ELSE <<s.Name, s.Windows[CurrentItem.WindowIndex + 1]>>

\* C17: Select issues exactly one switch command for the target of the
\* current row; on success the program terminates, on failure an error
\* message is set and mode, sessions, rows and cursor are unchanged; with
\* an empty Row sequence no command is issued.
C17_SelectSwitchesToRowTarget ==
    [][NormalSelect
       => IF Len(items) = 0
          THEN cmds' = <<>> /\ ~quit'
          ELSE /\ cmds' = <<[op |-> "switch", target |-> RowTarget]>>
               /\ \/ quit'
                  \/ /\ ~quit' /\ message' = "Error" /\ messageIsError'
                     /\ UNCHANGED <<mode, sessions, items, cursor>>]_vars

\* A switch to a window whose index differs from its position has failed.
C17_Witness ==
    /\ mode = ModeNormal /\ ~quit /\ message = "Error" /\ messageIsError
    /\ CursorInRange /\ ~CurrentItem.IsSession
    /\ cmds = <<[op |-> "switch", target |-> RowTarget]>>
    /\ RowTarget[2] \notin {CurrentItem.WindowIndex, CurrentItem.WindowIndex + 1}

----------------------------------------------------------------------------
(* C18 *)

\* The reference order of rows: sessions in source order, a session's own
\* row before its window rows, window rows in stored order.
RowBefore(a, b) ==
    \/ a.SessionIndex < b.SessionIndex
    \/ /\ a.SessionIndex = b.SessionIndex
       /\ \/ a.IsSession /\ ~b.IsSession
          \/ ~a.IsSession /\ ~b.IsSession /\ a.WindowIndex < b.WindowIndex

\* The rows of the reference flattening, as a set.
ReferenceRows(ss, f) ==
    LET passing == {i \in 1..Len(ss) : f = <<>> \/ PassesFilter(ss[i].Name, f)}
    IN  {SessionItem(i - 1) : i \in passing} \cup
        UNION {{WindowItem(i - 1, j - 1) : j \in 1..Len(ss[i].Windows)} :
               i \in {p \in passing : ss[p].Expanded}}

IsReferenceFlattening(its, ss, f) ==
    /\ {its[k] : k \in 1..Len(its)} = ReferenceRows(ss, f)
    /\ \A k \in 1..Len(its), l \in 1..Len(its) : k < l => RowBefore(its[k], its[l])

\* C18: for every bounded input, the rows rebuildItems builds are the
\* reference flattening: exactly the sessions whose name contains the filter
\* case-insensitively (all when it is empty), in source order, each followed
\* by one window row per stored window, in stored order, iff it is
\* expanded; no other rows.
C18_RebuildIsReferenceFlattening ==
    IsReferenceFlattening(BuildItems(sessions, filter, 0), sessions, filter)

\* rebuildItems has run on three sessions, one filtered out, one expanded
\* and one collapsed with its windows loaded.
C18_Witness ==
    /\ items = BuildItems(sessions, filter, 0) /\ filter # <<>>
    /\ Len(sessions) = 3
    /\ \E k \in 1..Len(items) : ~items[k].IsSession
    /\ \E i \in 1..Len(sessions) : ~PassesFilter(sessions[i].Name, filter)
    /\ \E i \in 1..Len(sessions) :
          /\ PassesFilter(sessions[i].Name, filter)
          /\ ~sessions[i].Expanded /\ sessions[i].Windows # <<>>

----------------------------------------------------------------------------
(* C19 *)

\* C19: the kill command issued on confirm is for the target captured when
\* the kill was requested, whatever happened between the request and the
\* confirm, a replacement of the sessions by a data-fetch result included.
C19_KillIsForCapturedTarget ==
    [][ConfirmKey
       => \A k \in 1..Len(cmds') :
             cmds'[k].op = "kill" => cmds'[k].target = killTarget]_vars

----------------------------------------------------------------------------
(* C20 *)

\* C20: after a successful Expand the cursor still indexes the row of the
\* session just expanded, also when the Expand collapses a session above it
\* whose window rows disappear.
C20_CursorStaysOnExpandedSession ==
    [][(/\ NormalExpand /\ CursorInRange /\ CurrentItem.IsSession
        /\ sessions'[CurrentItem.SessionIndex + 1].Expanded)
       => /\ cursor' < Len(items')
          /\ items'[cursor' + 1] = SessionItem(CurrentItem.SessionIndex)]_vars

----------------------------------------------------------------------------
(* C21 *)

\* C21: row reference validity.  In every reachable state every row's
\* session position is an index into the current session list and every
\* window row's window position is an index into that session's current
\* window list.
C21_RowReferencesValid ==
    \A k \in 1..Len(items) :
       /\ items[k].SessionIndex \in 0..(Len(sessions) - 1)
       /\ ~items[k].IsSession =>
             items[k].WindowIndex \in
                0..(Len(sessions[items[k].SessionIndex + 1].Windows) - 1)

\* A failed Expand has left window rows un-rebuilt under a session whose
\* flag it cleared.
C21_Witness ==
    /\ message = "Error loading windows" /\ ExpandedSet(sessions) = {}
    /\ \E k \in 1..Len(items) : ~items[k].IsSession

----------------------------------------------------------------------------
(* C22 *)

\* The messages produced by a failure: fetch, switch, kill or create
\* errors, a failed window fetch, the empty-name validation, and a create
\* whose switch failed.
ErrorMessages ==
    {"Error", "Error loading windows", "Session name cannot be empty",
     "Created but failed to switch"}

\* C22: the error flag is accurate in every reachable state: whenever a
\* message is shown with the flag set, that message was produced by an
\* error; a prompt or notice set later never carries a left-over flag.
C22_ErrorFlagAccurate ==
    (messageIsError /\ message # "") => message \in ErrorMessages

====
